---- MODULE Spec2Model ----
(***************************************************************************)
(* Model of omop_alchemy/conventions/vocab_lookups.py: the VocabLookup     *)
(* class, its construction from the concept reference data and the term    *)
(* resolution methods lookup_exact and lookup.                             *)
(* Also the membership tests of the concept catalogs of                    *)
(* omop_alchemy/conventions/concept_enumerators.py (SpecEnum).             *)
(*                                                                         *)
(* Python strings are sequences of one-character strings.  Python None is  *)
(* the one-element sequence <<"None">>, which is no string of the model.   *)
(***************************************************************************)
EXTENDS Integers, Sequences, FiniteSets, TLC

\* ------------------------------------------------------------------ bounds
\* number of rows of the concept table
NumConcepts == 2
\* number of lookup_exact / lookup calls made on one instance
MaxCalls == 2

\* ------------------------------------------------------- strings (str API)
None == <<"None">>

\* str.lower() on one character
LowerChar(c) == IF c = "A" THEN "a" ELSE c

\* str.lower()
Lower(s) == [i \in 1..Len(s) |-> LowerChar(s[i])]

RECURSIVE LStrip(_)
\* str.lstrip(): drop the leading whitespace
LStrip(s) == IF s # <<>> /\ Head(s) = " " THEN LStrip(Tail(s)) ELSE s

RECURSIVE RStrip(_)
\* str.rstrip(): drop the trailing whitespace
RStrip(s) == IF s # <<>> /\ s[Len(s)] = " " THEN RStrip(SubSeq(s, 1, Len(s) - 1)) ELSE s

\* str.strip()
Strip(s) == RStrip(LStrip(s))

\* term.lower(), a query key that keeps its whitespace
QueryKeyNoStrip(s) == Lower(s)

\* term.lower().strip(), the key under which a term is queried
QueryKey(s) == Strip(Lower(s))

\* concept_name.lower(), a stored key that keeps its whitespace
DomainKeyNoStrip(name) == Lower(name)

\* row.concept_name.lower().strip(), the key get_domain_lookup stores under
DomainKey(name) == Strip(Lower(name))

\* `if term == None: term = ''`
NoneToEmpty(term) == IF term = None THEN <<>> ELSE term

RECURSIVE remove_slash(_)
\* term.replace('/', '')
remove_slash(s) ==
    IF s = <<>> THEN <<>>
    ELSE IF Head(s) = "/" THEN remove_slash(Tail(s))
         ELSE <<Head(s)>> \o remove_slash(Tail(s))

\* f'{term[:-1]}/{term[-1]}', and '' when term[-1] raises IndexError
insert_slash(s) ==
    IF s = <<>> THEN <<>>
    ELSE SubSeq(s, 1, Len(s) - 1) \o <<"/">> \o <<s[Len(s)]>>

\* c(term) for a correction function named c
ApplyCorrection(c, s) ==
    IF c = "remove_slash" THEN remove_slash(s) ELSE insert_slash(s)

\* --------------------------------------------------- input and data ranges
\* the raw terms callers resolve
Terms ==
    { None, <<>>, <<" ", " ">>,
      <<"a">>, <<" ", "A">>, <<"/", "a">>, <<"a", "a">> }

\* the terms that are None, empty or whitespace only
BlankTerms == { t \in Terms : t = None \/ Strip(t) = <<>> }

\* concept_name values of the concept table
Names == { <<"A", " ">>, <<" ">> }

\* domain_id values of the concept table
Domains == { "Gender", "Race" }

\* concept_id values of the concept table
ConceptIds == 0..(NumConcepts - 1)

\* the values given as `unknown`: a bare concept id, as the default 0 of
\* __init__ is, or a member of the Unknown catalog (a plain enum.Enum)
UnknownArgs ==
    { [kind |-> "int",  value |-> 0],
      [kind |-> "enum", value |-> 1],
      [kind |-> "enum", value |-> 9] }

\* the correction chains assigned to _correction
Chains ==
    { <<"remove_slash", "insert_slash">>, <<"insert_slash", "remove_slash">> }

\* ------------------------------------- concept catalogs (ConceptEnum classes)
\* Python values: None, an int, a bool (an int subtype) or a str
PyNone == [type |-> "NoneType", n |-> 0, s |-> <<>>]
PyInt(i) == [type |-> "int", n |-> i, s |-> <<>>]
PyBool(b) == [type |-> "bool", n |-> IF b THEN 1 ELSE 0, s |-> <<>>]
PyStr(str) == [type |-> "str", n |-> 0, s |-> str]

\* bool(val): None, zero, False and the empty string are falsy
Truthy(val) ==
    IF val.type = "NoneType" THEN FALSE
    ELSE IF val.type = "str" THEN val.s # <<>>
    ELSE val.n # 0

\* a == b: numbers (bools included) compare by value, strings by content,
\* None equals only None
PyEq(a, b) ==
    IF a.type \in {"int", "bool"} /\ b.type \in {"int", "bool"} THEN a.n = b.n
    ELSE IF a.type = "str" /\ b.type = "str" THEN a.s = b.s
    ELSE a.type = "NoneType" /\ b.type = "NoneType"

\* the catalogs: the member values of a class in declaration order (a
\* repeated value declares an alias, which iterating the class skips)
Catalog ==
    [ Unknown |-> << 4129922, 4214687, 44790729, 36402660, 4264626,
                     36768646, 1634449, 4090378, 4207655 >>,
      ModifierTables |-> << 1147339, 35225440, 1147304 >>,
      Modality |-> << 35803401, 35803411 >>,
      TreatmentModifiers |-> << >>,
      TStageConcepts |-> << 1634213, 1635564, 1635562, 1634376, 1634654,
                            1635682 >>,
      StageType |-> << 0, 1 >> ]

\* the ConceptEnum subclasses of the model
Classes == DOMAIN Catalog

\* [s.value for s in cls]
member_values(cls) == [i \in 1..Len(Catalog[cls]) |-> PyInt(Catalog[cls][i])]

\* val in lst
InList(val, lst) == \E i \in 1..Len(lst) : PyEq(val, lst[i])

\* is_member without the `not val or`
is_member_no_falsy(cls, val) == InList(val, member_values(cls))

\* ConceptEnum.is_member: not val or val in [s.value for s in cls]
is_member(cls, val) == ~Truthy(val) \/ InList(val, member_values(cls))

\* Unknown.is_unknown: not val or val in [s.value for s in cls]
is_unknown(val) == ~Truthy(val) \/ InList(val, member_values("Unknown"))

\* the values passed as val: the falsy ones, True, small ints, strings and
\* every value some catalog declares
Vals ==
    { PyNone, PyInt(0), PyStr(<<>>), PyBool(FALSE), PyBool(TRUE),
      PyInt(1), PyInt(2), PyStr(<<"a">>), PyStr(<<" ">>) }
    \cup UNION { { PyInt(Catalog[c][i]) : i \in 1..Len(Catalog[c]) } : c \in Classes }

\* ------------------------------------------------------------------- state
VARIABLES
    enumCall,              \* the last is_member / is_unknown call and its result
    Concept,               \* the concept table: concept_id -> name, domain
    Concept_Relationship,  \* the 'Subsumes' rows: <<concept_id_1, concept_id_2>>
    pc,                    \* "init", "ready" (constructed), "raised" (__init__ raised)
    _unknown,              \* self._unknown
    _parent,               \* self._parent: <<>> for None, <<id>> otherwise
    _domain,               \* self._domain: "None" or a domain
    _correction,           \* self._correction: None or a chain
    _lookup,               \* self._lookup: the defaultdict, key -> concept id
    built,                 \* _lookup as it was when __init__ returned
    call,                  \* the last lookup call: op, term, outcome, corrections evaluated
    blank,                 \* <<term, outcome>> of the lookup_exact calls on blank terms
    ncalls                 \* number of lookup calls made

vars == <<enumCall, Concept, Concept_Relationship, pc, _unknown, _parent, _domain,
          _correction, _lookup, built, call, blank, ncalls>>

\* the empty dict
EmptyDict == [k \in {} |-> 0]

\* outcomes of a call
Return(v) == [exc |-> "none", value |-> v]
Raise(e) == [exc |-> e, value |-> 0]

NoEnumCall == [op |-> "none", cls |-> "none", val |-> PyNone, result |-> FALSE]

NoCall == [op |-> "none", term |-> None, out |-> Return(0), evaluated |-> <<>>]

\* the 'Subsumes' rows of the reference data: a chain over the concept ids
SubsumesChain == { <<i, i + 1>> : i \in 0..(NumConcepts - 2) }

Init ==
    /\ Concept \in [ConceptIds -> [name : Names, domain : Domains]]
    /\ Concept_Relationship = SubsumesChain
    /\ pc = "init"
    /\ _unknown = [kind |-> "int", value |-> 0]
    /\ _parent = <<>>
    /\ _domain = "None"
    /\ _correction = None
    /\ _lookup = EmptyDict
    /\ built = EmptyDict
    /\ call = NoCall
    /\ blank = {}
    /\ ncalls = 0
    /\ enumCall = NoEnumCall

\* ------------------------------------------------------- the defaultdict
\* d[key] = v
Store(d, key, v) == (key :> v) @@ d

\* a missing key stored with 0 instead of the factory's result
DefaultStoreZero(d, key, v) == (key :> 0) @@ d

\* defaultdict.__missing__: the factory's result v is stored under key
DefaultStore(d, key, v) == (key :> v) @@ d

\* return_unknown(): self._unknown.value; a bare int has no attribute value
return_unknown(unk) ==
    IF unk.kind = "enum" THEN Return(unk.value) ELSE Raise("AttributeError")

\* self._lookup[key] on defaultdict(self.return_unknown): a missing key calls
\* the factory and, when the factory returns, stores its result under key
GetItem(d, key, unk) ==
    IF key \in DOMAIN d
    THEN [d |-> d, out |-> Return(d[key])]
    ELSE LET r == return_unknown(unk)
         IN  IF r.exc = "none"
             THEN [d |-> DefaultStore(d, key, r.value), out |-> r]
             ELSE [d |-> d, out |-> r]

\* ------------------------------------------------------------ construction
\* the orders in which a query without ORDER BY may return the rows ids
RowOrders(ids) ==
    { s \in [1..Cardinality(ids) -> ids] :
        \A i, j \in 1..Cardinality(ids) : i # j => s[i] # s[j] }

RECURSIVE InsertRows(_, _, _)
\* for row in d: self._lookup[row.concept_name.lower().strip()] = row.concept_id
InsertRows(d, rows, table) ==
    IF rows = <<>> THEN d
    ELSE InsertRows(Store(d, DomainKey(table[Head(rows)].name), Head(rows)),
                    Tail(rows), table)

\* session.query(...).filter(Concept.domain_id == self._domain): the ids
DomainRows(table, domain) == { id \in DOMAIN table : table[id].domain = domain }

\* VocabLookup(unknown, parent, domain).  With a parent, __init__ calls
\* self.get_lookup(self._lookup, parent.value, session) on a method declared
\* get_lookup(self, session): TypeError, before the domain is looked at.
Construct(unknown, parent, domain) ==
    /\ pc = "init"
    /\ _unknown' = unknown
    /\ _parent' = parent
    /\ _domain' = domain
    /\ _correction' = None
    /\ IF parent # <<>>
       THEN /\ pc' = "raised"
            /\ _lookup' = EmptyDict
            /\ built' = EmptyDict
       ELSE /\ pc' = "ready"
            /\ IF domain # "None"
               THEN \E rows \in RowOrders(DomainRows(Concept, domain)) :
                        _lookup' = InsertRows(EmptyDict, rows, Concept)
               ELSE _lookup' = EmptyDict
            /\ built' = _lookup'
    /\ UNCHANGED <<enumCall, Concept, Concept_Relationship, call, blank, ncalls>>

\* self._correction = corrections, as the constructors of the subclasses do
\* right after super().__init__
SetCorrection(chain) ==
    /\ pc = "ready"
    /\ _correction = None
    /\ ncalls = 0
    /\ _correction' = chain
    /\ UNCHANGED <<enumCall, Concept, Concept_Relationship, pc, _unknown, _parent,
                   _domain, _lookup, built, call, blank, ncalls>>

\* ----------------------------------------------------------------- lookups
\* lookup_exact(term), on the dict d of an instance whose unknown is unk
lookup_exact(d, unk, term) == GetItem(d, QueryKey(NoneToEmpty(term)), unk)

\* a loop test that never breaks
NeverBreak(value, unk) == FALSE

\* `value != self._unknown`: an int never equals a member of a plain Enum
NotUnknown(value, unk) == IF unk.kind = "int" THEN value # unk.value ELSE TRUE

RECURSIVE CorrectionLoop(_, _, _, _, _, _, _)
\* for c in self._correction: break on a value that is not the unknown,
\* else value = self._lookup[c(term).lower().strip()]
CorrectionLoop(d, unk, chain, i, term, value, evaluated) ==
    IF i > Len(chain) \/ NotUnknown(value, unk)
    THEN [d |-> d, out |-> Return(value), evaluated |-> evaluated]
    ELSE LET r == GetItem(d, QueryKey(ApplyCorrection(chain[i], term)), unk)
         IN  IF r.out.exc # "none"
             THEN [d |-> r.d, out |-> r.out,
                   evaluated |-> Append(evaluated, chain[i])]
             ELSE CorrectionLoop(r.d, unk, chain, i + 1, term, r.out.value,
                                 Append(evaluated, chain[i]))

\* lookup(term), on the dict d of an instance with unknown unk and chain corr
lookup(d, unk, corr, term) ==
    LET t == NoneToEmpty(term)
        r == GetItem(d, QueryKey(t), unk)
    IN  IF r.out.exc # "none"
        THEN [d |-> r.d, out |-> r.out, evaluated |-> <<>>]
        ELSE IF corr = None
             THEN [d |-> r.d, out |-> r.out, evaluated |-> <<>>]
             ELSE CorrectionLoop(r.d, unk, corr, 1, t, r.out.value, <<>>)

\* a caller runs self.lookup_exact(term)
LookupExact(term) ==
    /\ pc = "ready"
    /\ ncalls < MaxCalls
    /\ LET r == lookup_exact(_lookup, _unknown, term)
       IN  /\ _lookup' = r.d
           /\ call' = [op |-> "lookup_exact", term |-> term, out |-> r.out,
                       evaluated |-> <<>>]
           /\ blank' = IF term \in BlankTerms
                       THEN blank \cup {<<term, r.out>>} ELSE blank
    /\ ncalls' = ncalls + 1
    /\ UNCHANGED <<enumCall, Concept, Concept_Relationship, pc, _unknown, _parent,
                   _domain, _correction, built>>

\* a caller runs self.lookup(term)
Lookup(term) ==
    /\ pc = "ready"
    /\ ncalls < MaxCalls
    /\ LET r == lookup(_lookup, _unknown, _correction, term)
       IN  /\ _lookup' = r.d
           /\ call' = [op |-> "lookup", term |-> term, out |-> r.out,
                       evaluated |-> r.evaluated]
    /\ ncalls' = ncalls + 1
    /\ UNCHANGED <<enumCall, Concept, Concept_Relationship, pc, _unknown, _parent,
                   _domain, _correction, built, blank>>

\* the arguments given as `parent`: None or a concept
ParentArgs == { <<>> } \cup { <<p>> : p \in ConceptIds }

\* the arguments given as `domain`: None or a domain
DomainArgs == { "None" } \cup Domains

Next ==
    \/ \E u \in UnknownArgs, p \in ParentArgs, dm \in DomainArgs : Construct(u, p, dm)
    \/ \E ch \in Chains : SetCorrection(ch)
    \/ \E t \in Terms : LookupExact(t)
    \/ \E t \in Terms : Lookup(t)

Spec == Init /\ [][Next]_vars

\* ------------------------------------------------------ catalog membership
\* the variables of the lookup instance and its reference data
lookupVars == <<Concept, Concept_Relationship, pc, _unknown, _parent, _domain,
                _correction, _lookup, built, call, blank, ncalls>>

\* a caller runs cls.is_member(val)
IsMember(cls, val) ==
    /\ enumCall' = [op |-> "is_member", cls |-> cls, val |-> val,
                    result |-> is_member(cls, val)]
    /\ UNCHANGED lookupVars

\* a caller runs Unknown.is_unknown(val)
IsUnknown(val) ==
    /\ enumCall' = [op |-> "is_unknown", cls |-> "Unknown", val |-> val,
                    result |-> is_unknown(val)]
    /\ UNCHANGED lookupVars

\* the catalogs need no reference data: one concept table, no instance
InitEnum ==
    /\ Init
    /\ \A c \in ConceptIds : Concept[c] = [name |-> <<" ">>, domain |-> "Gender"]

NextEnum ==
    \/ \E cls \in Classes, val \in Vals : IsMember(cls, val)
    \/ \E val \in Vals : IsUnknown(val)

SpecEnum == InitEnum /\ [][NextEnum]_vars

\* ------------------------------------------------------------- properties
\* the concept ids construction stored in the mapping
StoredIds == { built[k] : k \in DOMAIN built }

\* the term, normalized, is a key construction stored
Matches(t) == QueryKey(NoneToEmpty(t)) \in DOMAIN built

\* what lookup_exact(t) yields on the mapping as constructed
ExactOn(t) == lookup_exact(built, _unknown, t).out

\* what lookup(t) yields on the mapping as constructed
LookupOn(t) == lookup(built, _unknown, _correction, t).out

\* a key is lower-cased and has no leading or trailing whitespace
IsNormalizedKey(k) ==
    /\ \A i \in 1..Len(k) : k[i] # "A"
    /\ k = <<>> \/ (k[1] # " " /\ k[Len(k)] # " ")

\* C1: every lookup_exact(t) returns a concept id that construction stored or
\* exactly the unknown value the instance was configured with.
C1_ExactReturnsStoredOrUnknown ==
    call.op = "lookup_exact" =>
        /\ call.out.exc = "none"
        /\ call.out.value \in StoredIds \cup {_unknown.value}

\* C2: lookup_exact(t) and lookup(t) do not raise for a term that matches
\* nothing, whatever unknown the instance was constructed with.
C2_MissNeverRaises ==
    (call.op \in {"lookup_exact", "lookup"} /\ ~Matches(call.term)) =>
        call.out.exc = "none"

\* C3: with a chain [c1, c2], when lookup_exact(t) is the unknown value and
\* lookup_exact(c1(t)) is not, lookup(t) returns lookup_exact(c1(t)) and only
\* c1 was evaluated.
C3_FirstCorrectionWins ==
    (/\ call.op = "lookup"
     /\ _correction # None
     /\ Len(_correction) = 2
     /\ ExactOn(call.term) = Return(_unknown.value)
     /\ ExactOn(ApplyCorrection(_correction[1], NoneToEmpty(call.term))).exc = "none"
     /\ ExactOn(ApplyCorrection(_correction[1], NoneToEmpty(call.term)))
            # Return(_unknown.value))
    => /\ call.out = ExactOn(ApplyCorrection(_correction[1], NoneToEmpty(call.term)))
       /\ call.evaluated = <<_correction[1]>>

\* C4: when lookup_exact(t) is not the unknown value, lookup(t) returns the
\* same value and evaluates no correction function.
C4_HitSkipsCorrections ==
    (/\ call.op = "lookup"
     /\ ExactOn(call.term).exc = "none"
     /\ ExactOn(call.term).value # _unknown.value)
    => /\ call.out = ExactOn(call.term)
       /\ call.evaluated = <<>>

\* a lookup on an instance with a chain hit a concept that is not the unknown,
\* where the first correction would have led to another result
C4_Witness ==
    /\ call.op = "lookup"
    /\ _correction # None
    /\ ExactOn(call.term).exc = "none"
    /\ ExactOn(call.term).value # _unknown.value
    /\ ExactOn(ApplyCorrection(_correction[1], NoneToEmpty(call.term)))
           # ExactOn(call.term)

\* the targets of the 'Subsumes' rows that start in the set S
SubsumedBy(S) == { r[2] : r \in { e \in Concept_Relationship : e[1] \in S } }

RECURSIVE Reach(_, _)
\* the concepts reached from the frontier by one or more 'Subsumes' rows
Reach(frontier, acc) ==
    LET new == SubsumedBy(frontier) \ acc
    IN  IF new = {} THEN acc ELSE Reach(new, acc \cup new)

\* the descendants of the concept p, at any depth
Descendants(p) == Reach({p}, {})

\* C5: construction from a parent concept P yields a mapping that holds
\* exactly the normalized names of the descendants of P, each with the id of
\* a descendant of that name.
C5_ParentExpansionHoldsDescendants ==
    (pc # "init" /\ _parent # <<>>) =>
        /\ pc = "ready"
        /\ DOMAIN built =
             { Strip(Lower(Concept[c].name)) : c \in Descendants(_parent[1]) }
        /\ \A k \in DOMAIN built :
             \E c \in Descendants(_parent[1]) :
                 built[k] = c /\ Strip(Lower(Concept[c].name)) = k

\* C6: after construction no lookup changes the mapping: same keys, same
\* values as when construction finished.
C6_LookupsLeaveMappingUnchanged ==
    pc = "ready" => _lookup = built

\* the normalized names of the concepts of a domain are pairwise distinct
DistinctNames(ids) ==
    \A c1, c2 \in ids :
        Strip(Lower(Concept[c1].name)) = Strip(Lower(Concept[c2].name)) => c1 = c2

\* C7: on a lookup constructed from a domain D whose names are distinct after
\* normalization, the mapping holds exactly the concepts of D, lookup_exact
\* of a name in any case and padding returns its id, and lookup_exact of a
\* term matching no concept of D returns the unknown value.
C7_DomainLookupResolves ==
    (/\ pc = "ready"
     /\ _domain # "None"
     /\ DistinctNames(DomainRows(Concept, _domain)))
    => /\ DOMAIN built =
            { Strip(Lower(Concept[c].name)) : c \in DomainRows(Concept, _domain) }
       /\ \A c \in DomainRows(Concept, _domain) :
            built[Strip(Lower(Concept[c].name))] = c
       /\ call.op = "lookup_exact" =>
            IF \E c \in DomainRows(Concept, _domain) :
                   Strip(Lower(NoneToEmpty(call.term))) = Strip(Lower(Concept[c].name))
            THEN \E c \in DomainRows(Concept, _domain) :
                   /\ Strip(Lower(NoneToEmpty(call.term))) = Strip(Lower(Concept[c].name))
                   /\ call.out = Return(c)
            ELSE call.out = Return(_unknown.value)

\* C8: the lookup_exact calls on None, the empty string and whitespace-only
\* strings all had the same outcome, in whatever order they were made.
C8_BlankTermsAgree ==
    \A p, q \in blank : p[2] = q[2]

\* lookup_exact was called on two different blank terms
C8_Witness ==
    \E p, q \in blank : p[1] # q[1]

\* C9: every key of the mapping is lower-cased and has no leading or
\* trailing whitespace, after construction and after any lookups.
C9_KeysNormalized ==
    \A k \in DOMAIN _lookup : IsNormalizedKey(k)

\* a mapping built from a domain holding a name that is not normalized, to
\* which a lookup has since added a key
C9_Witness ==
    /\ pc = "ready"
    /\ _domain # "None"
    /\ \E c \in DomainRows(Concept, _domain) : ~IsNormalizedKey(Concept[c].name)
    /\ DOMAIN built # {}
    /\ DOMAIN _lookup # DOMAIN built

\* C10: every call of lookup_exact(t) and of lookup(t) yields what the same
\* call yields right after construction, whatever lookups ran before it.
C10_Repeatable ==
    pc = "ready" =>
        /\ call.op = "lookup_exact" => call.out = ExactOn(call.term)
        /\ call.op = "lookup" => call.out = LookupOn(call.term)

\* a second call was made after an earlier lookup had missed
C10_Witness ==
    /\ ncalls >= 2
    /\ _lookup # built
    /\ QueryKey(NoneToEmpty(call.term)) \in DOMAIN _lookup \ DOMAIN built

\* no concept is its own descendant
Acyclic == \A c \in ConceptIds : c \notin Descendants(c)

\* C11: on an acyclic 'Subsumes' graph the expansion from a parent concept
\* terminates and construction completes: once __init__ has run with a
\* parent, the instance is constructed and can serve lookups.
C11_ParentExpansionCompletes ==
    (Acyclic /\ pc # "init" /\ _parent # <<>>) => pc = "ready"

\* the values Python treats as false among those passed
FalsyVals == { PyNone, PyInt(0), PyStr(<<>>), PyBool(FALSE) }

\* the values a catalog declares
DeclaredValues(cls) == { Catalog[cls][i] : i \in 1..Len(Catalog[cls]) }

\* val equals the value of some member of the catalog
EqualsMember(cls, val) ==
    val.type \in {"int", "bool"} /\ val.n \in DeclaredValues(cls)

\* C12: is_member(val) is True exactly when val is falsy or equals the value
\* of a member of the catalog, is_unknown(val) exactly when val is falsy or
\* equals the value of an Unknown member; None and 0 count as members and as
\* unknown in every catalog.
C12_FalsyOrMemberValue ==
    /\ enumCall.op = "is_member" =>
         (enumCall.result <=>
            (enumCall.val \in FalsyVals \/ EqualsMember(enumCall.cls, enumCall.val)))
    /\ enumCall.op = "is_unknown" =>
         (enumCall.result <=>
            (enumCall.val \in FalsyVals \/ EqualsMember("Unknown", enumCall.val)))
    /\ (enumCall.op # "none" /\ enumCall.val \in {PyNone, PyInt(0)}) =>
         enumCall.result

\* is_member was asked about 0 on a catalog that declares no member 0
C12_Witness ==
    /\ enumCall.op = "is_member"
    /\ enumCall.val = PyInt(0)
    /\ 0 \notin DeclaredValues(enumCall.cls)
    /\ enumCall.result

====
